---- MODULE Spec2Model ----
(***************************************************************************)
(* Model of sequelize-model-from-json-array: the driver (index.js) and the *)
(* recursive model generator (src/generateModel.js), both in src/index.js. *)
(* JSON example records are folded entry by entry into a field map (body)  *)
(* and an accumulator of nested models (associatedModels); every nested    *)
(* model is generated recursively, the driver assembles the associations   *)
(* map and writeIndexFile renders the declaration order.                   *)
(***************************************************************************)
EXTENDS Integers, Sequences, FiniteSets, TLC

VARIABLES
    argv,              \* the root inputs: <<[name, examples]>>, one per input path
    r,                 \* index of the root input createModel is called for next
    stack,             \* call stack of generateSequelizeModel, top last
    files,             \* ./models/<name>.js: sequence of [name, body]
    associations,      \* the driver's associations object: sequence of [key, model]
    importStatements,  \* writeIndexFile: names in import order
    relations,         \* writeIndexFile: relation statements
    modelNames,        \* writeIndexFile: the model list
    jobLog,            \* history: one entry per generateSequelizeModel call, in call order
    pc                 \* "run" | "done" | "thrown"

vars == <<argv, r, stack, files, associations, importStatements, relations,
          modelNames, jobLog, pc>>

-----------------------------------------------------------------------------
(* JSON values, as JSON.parse produces them.                               *)

Null == [t |-> "null"]
Bool(b) == [t |-> "bool", b |-> b]
\* the number whole + frac/10
Num(whole, frac) == [t |-> "num", whole |-> whole, frac |-> frac]
\* a string is its sequence of characters
Str(cs) == [t |-> "str", cs |-> cs]
Arr(es) == [t |-> "arr", es |-> es]
\* an object is its own properties in Object.entries order
Obj(kvs) == [t |-> "obj", kvs |-> kvs]
KV(k, v) == [k |-> k, v |-> v]

\* value.length > 140 is the "long string" heuristic of inferDataType
MaxBoundedLen == 140

Digits == {"0", "1", "2", "3", "4", "5", "6", "7", "8", "9"}
WhiteSpace == {" "}

\* parseInt(value, 10) is NaN: after leading white space and an optional
\* sign there is no digit
RECURSIVE ParseIntIsNaN(_)
ParseIntIsNaN(cs) ==
    IF cs = <<>> THEN TRUE
    ELSE IF Head(cs) \in WhiteSpace THEN ParseIntIsNaN(Tail(cs))
    ELSE IF Head(cs) \in {"+", "-"}
         THEN Len(cs) < 2 \/ cs[2] \notin Digits
    ELSE Head(cs) \notin Digits

\* the strings of the model that new Date(value) parses to a valid time
DateStrings == { <<"0", "0", "1", "2">>, <<"2", "0", "2", "0", "-", "0", "1">>,
                 <<"M", "a", "y", " ", "1">> }
DateIsValid(cs) == cs \in DateStrings

\* JS truthiness of a value
Truthy(v) ==
    CASE v.t = "null" -> FALSE
      [] v.t = "bool" -> v.b
      [] v.t = "num"  -> v.whole # 0 \/ v.frac # 0
      [] v.t = "str"  -> Len(v.cs) > 0
      [] OTHER        -> TRUE

\* typeof value
TypeOf(v) ==
    CASE v.t = "bool" -> "boolean"
      [] v.t = "num"  -> "number"
      [] v.t = "str"  -> "string"
      [] OTHER        -> "object"

\* utilities.isInt: the number has no fractional component
isInt(v) == v.frac = 0

\* utilities.toCamelCase on the keys of the model
toCamelCase(key) ==
    CASE key = "Bio"     -> "bio"
      [] key = "User"    -> "user"
      [] key = "user_id" -> "userId"
      [] OTHER           -> key

\* Object.entries(value) for a non-null value: an object's properties, an
\* array's elements and a string's characters under their indices, nothing
\* for a number or a boolean
ObjectEntries(v) ==
    CASE v.t = "obj" -> v.kvs
      [] v.t = "arr" -> [n \in 1..Len(v.es) |-> KV(ToString(n - 1), v.es[n])]
      [] v.t = "str" -> [n \in 1..Len(v.cs) |-> KV(ToString(n - 1), Str(<<v.cs[n]>>))]
      [] OTHER       -> <<>>

-----------------------------------------------------------------------------
(* Own properties of a JS object: a sequence in own-key order.  Integer-    *)
(* like keys come first in ascending order, then the others in insertion   *)
(* order.  Reading a key that is not an own property finds the property    *)
(* inherited from Object.prototype / Array.prototype, if there is one.     *)

IndexKeys == <<"0", "1", "2", "3">>
IsIndexKey(k) == \E n \in 1..Len(IndexKeys) : IndexKeys[n] = k
IndexOf(k) == CHOOSE n \in 1..Len(IndexKeys) : IndexKeys[n] = k

\* properties every {} and [] inherits (all of them functions)
InheritedKeys == {"constructor", "toString", "valueOf", "hasOwnProperty"}

HasOwn(props, k) == \E n \in 1..Len(props) : props[n].key = k
OwnPos(props, k) == CHOOSE n \in 1..Len(props) : props[n].key = k
OwnGet(props, k) == props[OwnPos(props, k)]
OwnKeys(props) == [n \in 1..Len(props) |-> props[n].key]

\* the place a new own key takes in own-key order
InsertPos(props, k) ==
    IF IsIndexKey(k)
    THEN 1 + Cardinality({n \in 1..Len(props) :
                            IsIndexKey(props[n].key)
                            /\ IndexOf(props[n].key) < IndexOf(k)})
    ELSE Len(props) + 1

\* props[k] = p, where p.key = k
OwnSet(props, p) ==
    IF HasOwn(props, p.key)
    THEN [props EXCEPT ![OwnPos(props, p.key)] = p]
    ELSE LET at == InsertPos(props, p.key)
         IN SubSeq(props, 1, at - 1) \o <<p>> \o SubSeq(props, at, Len(props))

-----------------------------------------------------------------------------
(* generateModel.js: the classifier.                                        *)

\* the type tags, as the string literals of the source
TBoolean == "DataTypes.BOOLEAN"
TInteger == "DataTypes.INTEGER"
TFloat == "DataTypes.FLOAT"
TDate == "DataTypes.DATE"
TString == "DataTypes.STRING"
TStringMax == "DataTypes.STRING('MAX')"
TNested == "DataTypes.NESTED"
TUnknown == "???"
\* a return value of null, and a property read that yields undefined
JsNull == "null"
JsUndefined == "undefined"

\* const specialTypes = ["DataTypes.STRING(\"MAX\")"]
specialTypes == {"DataTypes.STRING(\"MAX\")"}

\* properties an array inherits or owns without being given them; reading
\* one of them from associatedModels yields a value without .examples
ArrayBuiltinKeys == InheritedKeys \cup {"length", "push", "map", "filter"}

\* the scalar-array test: value[0] && typeof value[0] !== "object"
FirstIsScalar(v) ==
    /\ Len(v.es) > 0
    /\ Truthy(v.es[1])
    /\ TypeOf(v.es[1]) # "object"

\* the value inferDataType returns
InferredType(v) ==
    CASE v.t = "null" -> JsNull
      [] v.t = "bool" -> TBoolean
      [] v.t = "num"  -> IF isInt(v) THEN TInteger ELSE TFloat
      [] v.t = "str"  ->
            IF DateIsValid(v.cs) /\ ParseIntIsNaN(v.cs) THEN TDate
            ELSE IF Len(v.cs) > MaxBoundedLen THEN TStringMax
            ELSE TString
      [] v.t = "arr"  -> IF FirstIsScalar(v) THEN TStringMax ELSE TNested
      [] v.t = "obj"  -> TNested

\* whether inferDataType goes on to register the value for a nested model
Registers(v) == v.t = "obj" \/ (v.t = "arr" /\ ~FirstIsScalar(v))

\* the relation a value is registered with when its key is new
RelationOf(v) == IF v.t = "arr" THEN "1:n" ELSE "1:1"

\* the examples a value contributes: push(...value) or push(value)
ExamplesOf(v) == IF v.t = "arr" THEN v.es ELSE <<v>>

\* associatedModels[camelCasedKey] is truthy
AmTruthy(am, k) == HasOwn(am, k) \/ k \in ArrayBuiltinKeys

\* the registration of inferDataType throws: the key names a builtin of the
\* array, which has no .examples (or, for length, cannot be assigned)
RegisterThrows(am, k) == ~HasOwn(am, k) /\ k \in ArrayBuiltinKeys

\* associatedModels after the registration of value under camelCasedKey
Register(am, k, v) ==
    LET created == IF AmTruthy(am, k) THEN am
                   ELSE OwnSet(am, [key |-> k, name |-> k,
                                    relation |-> RelationOf(v), examples |-> <<>>])
        m == OwnGet(created, k)
    IN OwnSet(created, [m EXCEPT !.examples = m.examples \o ExamplesOf(v)])

\* inferDataType(value, key, associatedModels): what it returns, the
\* accumulator it leaves, and whether it throws
inferDataType(value, key, am) ==
    LET k == toCamelCase(key)
    IN IF ~Registers(value)
       THEN [ret |-> InferredType(value), am |-> am, threw |-> FALSE]
       ELSE IF RegisterThrows(am, k)
       THEN [ret |-> JsNull, am |-> am, threw |-> TRUE]
       ELSE [ret |-> InferredType(value), am |-> Register(am, k, value), threw |-> FALSE]

-----------------------------------------------------------------------------
(* generateModel.js: the fold of one entry into body.                       *)

\* body[camelCasedKey] is truthy
BodyTruthy(body, k) == HasOwn(body, k) \/ k \in InheritedKeys

\* body[camelCasedKey].type
BodyType(body, k) == IF HasOwn(body, k) THEN OwnGet(body, k).type ELSE JsUndefined

\* the special-case guard: the entry is skipped
SkipsSpecial(body, k) == BodyTruthy(body, k) /\ BodyType(body, k) \in specialTypes

\* mutant of MergedType: a nested observation keeps the type already known
MergedTypeKeepingKnown(inferred, body, k) ==
    IF inferred = TNested /\ HasOwn(body, k) THEN BodyType(body, k)
    ELSE IF inferred # JsNull THEN inferred
    ELSE IF BodyTruthy(body, k) THEN BodyType(body, k)
    ELSE TUnknown

\* inferredType || (body[camelCasedKey] ? body[camelCasedKey].type : "???")
MergedType(inferred, body, k) ==
    IF inferred # JsNull THEN inferred
    ELSE IF BodyTruthy(body, k) THEN BodyType(body, k)
    ELSE TUnknown

\* one iteration of the inner forEach of generateSequelizeModel
FoldStep(body, am, key, value) ==
    LET k == toCamelCase(key)
    IN IF SkipsSpecial(body, k)
       THEN [body |-> body, am |-> am, threw |-> FALSE]
       ELSE LET res == inferDataType(value, key, am)
            IN IF res.threw
               THEN [body |-> body, am |-> am, threw |-> TRUE]
               ELSE [body |-> OwnSet(body, [key |-> k,
                                           type |-> MergedType(res.ret, body, k),
                                           field |-> key]),
                     am |-> res.am, threw |-> FALSE]

\* mutant of StripNested: never-typed keys are deleted as well
StripNestedAndUnknown(body) ==
    SelectSeq(body, LAMBDA p : p.type \notin {TNested, TUnknown})

\* the deletion of the keys with nested data
StripNested(body) == SelectSeq(body, LAMBDA p : p.type # TNested)

-----------------------------------------------------------------------------
(* generateModel.js: one call of generateSequelizeModel is one frame.       *)

\* the first example at or after i that the outer forEach does not pass
\* silently: null (Object.entries throws) or a value with entries
RECURSIVE Seek(_, _)
Seek(examples, i) ==
    IF i > Len(examples) THEN i
    ELSE IF examples[i] = Null \/ Len(ObjectEntries(examples[i])) > 0 THEN i
    ELSE Seek(examples, i + 1)

\* generateSequelizeModel(modelName, examples) on entry
NewFrame(modelName, examples) ==
    [modelName |-> modelName, examples |-> examples,
     i |-> Seek(examples, 1), j |-> 1,
     body |-> <<>>, am |-> <<>>,
     phase |-> "fold", c |-> 1, otherModels |-> <<>>]

Top == stack[Len(stack)]
ReplaceTop(f) == [stack EXCEPT ![Len(stack)] = f]

\* the frame after the entry at (i, j) has been folded
Advance(f) ==
    IF f.j < Len(ObjectEntries(f.examples[f.i]))
    THEN [f EXCEPT !.j = f.j + 1]
    ELSE [f EXCEPT !.i = Seek(f.examples, f.i + 1), !.j = 1]

\* Object.values(associatedModels).filter(relation): the names only, which
\* is all writeIndexFile reads of them
NamesWith(am, relation) ==
    LET sel == SelectSeq(am, LAMBDA m : m.relation = relation)
    IN [n \in 1..Len(sel) |-> sel[n].name]

\* the first element of the list generateSequelizeModel returns
OwnResult(f) ==
    [model |-> toCamelCase(f.modelName),
     hasMany |-> NamesWith(f.am, "1:n"),
     hasOne |-> NamesWith(f.am, "1:1")]

\* fs.writeFileSync(`./models/${modelName}.js`, template)
WriteFile(fs, name, body) == OwnSet(fs, [key |-> name, body |-> body])

\* the guards of the steps of a call: where the two forEach stand
Folding == pc = "run" /\ stack # <<>> /\ Top.phase = "fold"
AtNull == Folding /\ Top.i <= Len(Top.examples) /\ Top.examples[Top.i] = Null
AtEntry ==
    /\ Folding /\ Top.i <= Len(Top.examples)
    /\ Top.examples[Top.i] # Null
    /\ Top.j \in 1..Len(ObjectEntries(Top.examples[Top.i]))
AtEndOfFold == Folding /\ Top.i > Len(Top.examples)
Spawning == pc = "run" /\ stack # <<>> /\ Top.phase = "spawn"
AtChild == Spawning /\ Top.c <= Len(Top.am)
AtReturn == Spawning /\ Top.c > Len(Top.am)

\* one entry of one example is classified and merged
FoldEntry ==
    /\ AtEntry
    /\ LET f == Top
           e == ObjectEntries(f.examples[f.i])[f.j]
           res == FoldStep(f.body, f.am, e.k, e.v)
       IN IF res.threw
          THEN pc' = "thrown" /\ UNCHANGED stack
          ELSE /\ pc' = pc
               /\ stack' = ReplaceTop(Advance([f EXCEPT !.body = res.body,
                                                        !.am = res.am]))
    /\ UNCHANGED <<argv, r, files, associations, importStatements, relations,
                   modelNames, jobLog>>

\* Object.entries(example) of a null example: TypeError
ThrowOnNull ==
    /\ AtNull
    /\ pc' = "thrown"
    /\ UNCHANGED <<argv, r, stack, files, associations, importStatements,
                   relations, modelNames, jobLog>>

\* all examples folded: nested keys are deleted and the model file written
FinishFold ==
    /\ AtEndOfFold
    /\ LET f == [Top EXCEPT !.body = StripNested(Top.body), !.phase = "spawn"]
       IN /\ stack' = ReplaceTop(f)
          /\ files' = WriteFile(files, f.modelName, f.body)
          /\ jobLog' = Append(jobLog, [name |-> f.modelName,
                                       root |-> Len(stack) = 1,
                                       fields |-> OwnKeys(f.body),
                                       hasMany |-> NamesWith(f.am, "1:n"),
                                       hasOne |-> NamesWith(f.am, "1:1")])
    /\ UNCHANGED <<argv, r, associations, importStatements, relations,
                   modelNames, pc>>

\* mutant of SpawnChild: the call is given the caller's own examples
SpawnChildWithOwnExamples ==
    /\ AtChild
    /\ LET m == Top.am[Top.c]
       IN stack' = Append(stack, NewFrame(toCamelCase(m.key), Top.examples))
    /\ UNCHANGED <<argv, r, files, associations, importStatements, relations,
                   modelNames, jobLog, pc>>

\* the recursive call for the next associated model
SpawnChild ==
    /\ AtChild
    /\ LET m == Top.am[Top.c]
       IN stack' = Append(stack, NewFrame(toCamelCase(m.key), m.examples))
    /\ UNCHANGED <<argv, r, files, associations, importStatements, relations,
                   modelNames, jobLog, pc>>

\* a recursive call returns: otherModels.push(...result)
ReturnToParent ==
    /\ AtReturn /\ Len(stack) > 1
    /\ LET result == <<OwnResult(Top)>> \o Top.otherModels
           parent == stack[Len(stack) - 1]
       IN stack' = SubSeq(stack, 1, Len(stack) - 2) \o
                   <<[parent EXCEPT !.otherModels = @ \o result, !.c = @ + 1]>>
    /\ UNCHANGED <<argv, r, files, associations, importStatements, relations,
                   modelNames, jobLog, pc>>

-----------------------------------------------------------------------------
(* index.js: the driver.                                                    *)

\* createModel(name, path): the examples are parsed and the root call made
AtCreateModel == pc = "run" /\ stack = <<>> /\ r <= Len(argv)
AtWriteIndexFile == pc = "run" /\ stack = <<>> /\ r > Len(argv)

CreateModel ==
    /\ AtCreateModel
    /\ stack' = <<NewFrame(argv[r].name, argv[r].examples)>>
    /\ UNCHANGED <<argv, r, files, associations, importStatements, relations,
                   modelNames, jobLog, pc>>

\* mutant of AssignOthers: a name that is already there is not assigned again
RECURSIVE AssignOthersKeepingFirst(_, _)
AssignOthersKeepingFirst(assoc, models) ==
    IF models = <<>> THEN assoc
    ELSE AssignOthersKeepingFirst(
            IF HasOwn(assoc, Head(models).model) THEN assoc
            ELSE OwnSet(assoc, [key |-> Head(models).model, model |-> Head(models)]),
            Tail(models))

\* otherModels.forEach((model) => { associations[model.model] = model; })
RECURSIVE AssignOthers(_, _)
AssignOthers(assoc, models) ==
    IF models = <<>> THEN assoc
    ELSE AssignOthers(OwnSet(assoc, [key |-> Head(models).model,
                                     model |-> Head(models)]),
                      Tail(models))

\* const [mainModel, ...otherModels] = createModel(name, path);
\* associations[name] = mainModel; then the others under their own names
AssignResult(assoc, name, result) ==
    AssignOthers(OwnSet(assoc, [key |-> name, model |-> Head(result)]),
                 Tail(result))

\* the root call returns to the driver
ReturnToDriver ==
    /\ AtReturn /\ Len(stack) = 1
    /\ associations' = AssignResult(associations, argv[r].name,
                                    <<OwnResult(Top)>> \o Top.otherModels)
    /\ stack' = <<>>
    /\ r' = r + 1
    /\ UNCHANGED <<argv, files, importStatements, relations, modelNames,
                   jobLog, pc>>

\* associations[subModelName] is truthy
AssocTruthy(assoc, k) == HasOwn(assoc, k) \/ k \in InheritedKeys

\* mutant of SubModelStep: the sub model is declared whether or not the
\* associations have it
SubModelStepAlwaysDeclaring(out, assoc, name, sub, has) ==
    [out EXCEPT !.relations =
                    @ \o <<[stmt |-> has, subject |-> name, object |-> sub],
                           [stmt |-> "belongsTo", subject |-> sub, object |-> name]>>,
                !.imports = Append(@, sub),
                !.names = Append(@, sub)]

\* one iteration of an associations[...].forEach of writeIndexFile
SubModelStep(out, assoc, name, sub, has) ==
    LET rel == [out EXCEPT !.relations =
                    @ \o <<[stmt |-> has, subject |-> name, object |-> sub],
                           [stmt |-> "belongsTo", subject |-> sub, object |-> name]>>]
    IN IF AssocTruthy(assoc, sub) THEN rel
       ELSE [rel EXCEPT !.imports = Append(@, sub), !.names = Append(@, sub)]

RECURSIVE SubModelLoop(_, _, _, _, _)
SubModelLoop(out, assoc, name, subs, has) ==
    IF subs = <<>> THEN out
    ELSE SubModelLoop(SubModelStep(out, assoc, name, Head(subs), has),
                      assoc, name, Tail(subs), has)

\* one iteration of Object.keys(associations).forEach of writeIndexFile
ModelStep(out, assoc, name) ==
    LET model == OwnGet(assoc, name).model
        imported == [out EXCEPT !.imports = Append(@, name)]
        many == SubModelLoop(imported, assoc, name, model.hasMany, "hasMany")
        one == SubModelLoop(many, assoc, name, model.hasOne, "hasOne")
    IN [one EXCEPT !.names = Append(@, name)]

RECURSIVE ModelLoop(_, _, _)
ModelLoop(out, assoc, keys) ==
    IF keys = <<>> THEN out
    ELSE ModelLoop(ModelStep(out, assoc, Head(keys)), assoc, Tail(keys))

\* writeIndexFile(associations): imports, relations and model names
IndexFile(assoc) ==
    ModelLoop([imports |-> <<>>, relations |-> <<>>, names |-> <<>>],
              assoc, OwnKeys(assoc))

WriteIndexFile ==
    /\ AtWriteIndexFile
    /\ LET out == IndexFile(associations)
       IN /\ importStatements' = out.imports
          /\ relations' = out.relations
          /\ modelNames' = out.names
    /\ pc' = "done"
    /\ UNCHANGED <<argv, r, stack, files, associations, jobLog>>

Next ==
    \/ CreateModel
    \/ FoldEntry
    \/ ThrowOnNull
    \/ FinishFold
    \/ SpawnChild
    \/ ReturnToParent
    \/ ReturnToDriver
    \/ WriteIndexFile

-----------------------------------------------------------------------------
(* The inputs: the example files the driver is started with.                *)

MaxRecords == 2

Word == Str(<<"A", "n", "n">>)
EmptyStr == Str(<<>>)
LongStr == Str([n \in 1..(MaxBoundedLen + 1) |-> "x"])
LimitStr == Str([n \in 1..MaxBoundedLen |-> "x"])
DigitStr == Str(<<"0", "0", "1", "2">>)
MonthStr == Str(<<"2", "0", "2", "0", "-", "0", "1">>)
DayStr == Str(<<"M", "a", "y", " ", "1">>)

Scalars ==
    {Null, Bool(TRUE), Bool(FALSE), Num(0, 0), Num(7, 0), Num(1, 5),
     Word, EmptyStr, LongStr, LimitStr, DigitStr, MonthStr, DayStr}

Person == Obj(<<KV("bio", Word)>>)
Arrays ==
    {Arr(<<>>), Arr(<<Word, Word>>), Arr(<<Num(7, 0)>>), Arr(<<Bool(TRUE)>>),
     Arr(<<Num(0, 0), Num(7, 0)>>), Arr(<<EmptyStr>>), Arr(<<Bool(FALSE)>>),
     Arr(<<Null>>), Arr(<<Person, Null>>),
     Arr(<<Obj(<<KV("bio", Num(7, 0))>>), Person>>),
     Arr(<<Person, Word>>),
     Arr(<<Arr(<<Person>>)>>)}
Objects ==
    {Obj(<<>>), Person, Obj(<<KV("bio", Null)>>),
     Obj(<<KV("user", Obj(<<KV("bio", Num(7, 0))>>))>>)}

FieldValues == Scalars \cup Arrays \cup Objects

\* records of one root job: every field value under one canonical key, and
\* records with several keys, inherited names and deeper nesting
JobRecords ==
    {Obj(<<KV("bio", v)>>) : v \in FieldValues}
    \cup {Obj(<<KV("Bio", v)>>) : v \in {Null, Word, LongStr, Person}}
    \cup {Obj(<<KV("constructor", v)>>) : v \in {Null, Num(7, 0), Person}}
    \cup {Obj(<<>>),
          Obj(<<KV("Bio", Word), KV("bio", Null)>>),
          Obj(<<KV("user_id", Num(7, 0)),
                KV("address", Obj(<<KV("user", Person)>>))>>)}

\* records of the driver runs: nested models whose names meet again
DriverRecords ==
    {Obj(<<KV("address", Person)>>),
     Obj(<<KV("address", Obj(<<KV("user", Person)>>))>>),
     Obj(<<KV("user", Arr(<<Obj(<<KV("address", Obj(<<KV("user_id", Num(7, 0))>>))>>)>>))>>),
     Obj(<<KV("address", Person),
           KV("bio", Obj(<<KV("address", Obj(<<KV("user_id", Num(7, 0))>>))>>))>>),
     Obj(<<KV("bio", Arr(<<Arr(<<Person>>)>>))>>),
     Obj(<<KV("bio", Arr(<<Null>>))>>),
     Obj(<<KV("bio", Word)>>)}

SeqsUpTo(S, n) == UNION {[1..m -> S] : m \in 0..n}

Root(name, examples) == [name |-> name, examples |-> examples]

\* node index.js user <path>, and the same with one further input path
Inputs ==
    {<<Root("user", ex)>> : ex \in SeqsUpTo(JobRecords, MaxRecords)}
    \cup {<<Root("user", ex)>> : ex \in SeqsUpTo(DriverRecords, MaxRecords)}
    \cup {<<Root("user", ex), Root(name, <<rec>>)>> :
            ex \in SeqsUpTo(DriverRecords, MaxRecords),
            name \in {"address", "user", "User"},
            rec \in DriverRecords}

Init ==
    /\ argv \in Inputs
    /\ r = 1
    /\ stack = <<>>
    /\ files = <<>>
    /\ associations = <<>>
    /\ importStatements = <<>>
    /\ relations = <<>>
    /\ modelNames = <<>>
    /\ jobLog = <<>>
    /\ pc = "run"

Spec == Init /\ [][Next]_vars

-----------------------------------------------------------------------------
(* What a job has observed, read off its examples.                          *)

\* the entries of the examples, in the order the two forEach visit them
RECURSIVE EntriesOf(_)
EntriesOf(examples) ==
    IF examples = <<>> THEN <<>>
    ELSE (IF Head(examples) = Null THEN <<>> ELSE ObjectEntries(Head(examples)))
         \o EntriesOf(Tail(examples))

\* the entries a frame has folded so far
Consumed(f) ==
    IF f.i > Len(f.examples) THEN EntriesOf(f.examples)
    ELSE EntriesOf(SubSeq(f.examples, 1, f.i - 1))
         \o (IF f.examples[f.i] = Null THEN <<>>
             ELSE SubSeq(ObjectEntries(f.examples[f.i]), 1, f.j - 1))

\* the values observed under canonical key k, in order
ValuesOf(entries, k) ==
    LET sel == SelectSeq(entries, LAMBDA e : toCamelCase(e.k) = k)
    IN [n \in 1..Len(sel) |-> sel[n].v]

KeysOf(entries) == {toCamelCase(entries[n].k) : n \in 1..Len(entries)}

Frames == {stack[n] : n \in 1..Len(stack)}
\* the frames whose fold is complete (nested keys stripped, file written)
Folded == {f \in Frames : f.phase = "spawn"}

IsScalar(v) == v.t \in {"bool", "num", "str"}
IsStructured(v) == v.t \in {"obj", "arr"}
IsPlainObject(v) == v.t = "obj"
\* an array of structured elements
IsStructuredArray(v) ==
    v.t = "arr" /\ Len(v.es) > 0 /\ \A n \in 1..Len(v.es) : IsPlainObject(v.es[n])
\* a non-empty array whose first element is a number, a string or a boolean
IsScalarArray(v) == v.t = "arr" /\ Len(v.es) > 0 /\ IsScalar(v.es[1])
\* a string longer than 140 characters that is not taken for a date
IsLongString(v) ==
    v.t = "str" /\ Len(v.cs) > MaxBoundedLen
    /\ ~(DateIsValid(v.cs) /\ ParseIntIsNaN(v.cs))

\* the entry FoldEntry is about to fold
CurrentEntry == ObjectEntries(Top.examples[Top.i])[Top.j]

-----------------------------------------------------------------------------
(* The claims.                                                              *)

\* C1 (as claimed): sticky-type monotonicity.  In every job, once a record
\* has given a key a string longer than 140 characters and every later value
\* folded under that key is a string, the key's type is STRING('MAX').
C1_StickyUnboundedString ==
    \A f \in Frames :
        LET obs == Consumed(f)
        IN \A k \in KeysOf(obs) :
            LET vs == ValuesOf(obs, k)
            IN (\E p \in 1..Len(vs) :
                    /\ IsLongString(vs[p])
                    /\ \A q \in (p + 1)..Len(vs) : vs[q].t = "str")
               => (HasOwn(f.body, k) /\ BodyType(f.body, k) = TStringMax)

\* C2 (as claimed): cardinality determinism.  When a job has folded all its
\* records, a key whose every value was a plain object has a 1:1 association
\* and a key that had an array of structured elements in some record has a
\* 1:n association.
C2_CardinalityDeterminism ==
    \A f \in Folded :
        LET obs == EntriesOf(f.examples)
        IN \A k \in KeysOf(obs) :
            LET vs == ValuesOf(obs, k)
            IN /\ (\A n \in 1..Len(vs) : IsPlainObject(vs[n]))
                    => (HasOwn(f.am, k) /\ OwnGet(f.am, k).relation = "1:1")
               /\ (\E n \in 1..Len(vs) : IsStructuredArray(vs[n]))
                    => (HasOwn(f.am, k) /\ OwnGet(f.am, k).relation = "1:n")

\* C3 (as claimed): scalar-array collapse.  Folding a non-empty array whose
\* first element is a number, a string or a boolean gives the key the type
\* STRING('MAX') and leaves the job's associatedModels as they were.
C3_ScalarArrayCollapse ==
    [][(AtEntry /\ IsScalarArray(CurrentEntry.v))
        => /\ pc' = "run"
           /\ stack'[Len(stack)].am = Top.am
           /\ BodyType(stack'[Len(stack)].body, toCamelCase(CurrentEntry.k))
                = TStringMax]_vars

\* C4 (as claimed): no classification or merging step of any job throws on
\* well-formed records.
C4_NoThrow == pc # "thrown"

\* C5: field coverage.  When a job has folded all its records, every
\* canonical key that occurs in a record is a key of the final field map or
\* the name of one of the job's associated models.
C5_FieldCoverage ==
    \A f \in Folded :
        \A k \in KeysOf(EntriesOf(f.examples)) :
            \/ HasOwn(f.body, k)
            \/ \E n \in 1..Len(f.am) : f.am[n].name = k

\* a completed job of two records or more that keeps a never-typed key with
\* the placeholder and accounts for another key by an associated model only
C5_Witness ==
    \E f \in Folded :
        /\ Len(f.examples) >= 2
        /\ \E k \in KeysOf(EntriesOf(f.examples)) :
              HasOwn(f.body, k) /\ BodyType(f.body, k) = TUnknown
        /\ \E k \in KeysOf(EntriesOf(f.examples)) :
              ~HasOwn(f.body, k) /\ HasOwn(f.am, k)

\* a value the claims call structured: a plain object or an array of
\* structured elements
IsNested(v) == IsPlainObject(v) \/ IsStructuredArray(v)

\* the position of the last value that is not null, 0 if there is none
LastNonNull(vs) ==
    LET at == {n \in 1..Len(vs) : vs[n] # Null}
    IN IF at = {} THEN 0 ELSE CHOOSE n \in at : \A m \in at : m <= n

\* C8 (as claimed): a structured observation preserves the known type.  When
\* a job has folded all its records, a key that had a scalar value and after
\* it only structured values or null is still in the final field map, with
\* the type of that scalar, and has its associated model.
C8_StructuredPreservesType ==
    \A f \in Folded :
        LET obs == EntriesOf(f.examples)
        IN \A k \in KeysOf(obs) :
            LET vs == ValuesOf(obs, k)
            IN \A p \in 1..Len(vs) :
                (/\ IsScalar(vs[p])
                 /\ \E q \in (p + 1)..Len(vs) : IsNested(vs[q])
                 /\ \A q \in (p + 1)..Len(vs) : vs[q] = Null \/ IsNested(vs[q]))
                => /\ HasOwn(f.body, k)
                   /\ BodyType(f.body, k) = InferredType(vs[p])
                   /\ HasOwn(f.am, k)

\* C8 (amended): the later observation wins.  When a job has folded all its
\* records, a key whose last value other than null was structured is not in
\* the final field map, whatever type earlier records gave it, and has its
\* associated model.
C8_StructuredReplacesType ==
    \A f \in Folded :
        LET obs == EntriesOf(f.examples)
        IN \A k \in KeysOf(obs) :
            LET vs == ValuesOf(obs, k)
                n == LastNonNull(vs)
            IN (n > 0 /\ IsNested(vs[n]))
               => (~HasOwn(f.body, k) /\ HasOwn(f.am, k))

\* a completed job in which a scalar value of a key was followed by a
\* structured one
C8_Witness ==
    \E f \in Folded :
        LET obs == EntriesOf(f.examples)
        IN \E k \in KeysOf(obs) :
            LET vs == ValuesOf(obs, k)
            IN \E p \in 1..Len(vs) : \E q \in (p + 1)..Len(vs) :
                 IsScalar(vs[p]) /\ IsNested(vs[q]) /\ q = LastNonNull(vs)

\* C9 (as claimed): null never overrides.  Folding a null value leaves the
\* key with the type it had, and gives a key the job has not seen before the
\* placeholder type.
C9_NullNeverOverrides ==
    [][(AtEntry /\ CurrentEntry.v = Null)
        => LET k == toCamelCase(CurrentEntry.k)
               body == stack'[Len(stack)].body
           IN /\ pc' = "run"
              /\ HasOwn(body, k)
              /\ BodyType(body, k) = IF HasOwn(Top.body, k)
                                     THEN BodyType(Top.body, k)
                                     ELSE TUnknown]_vars

Max(S) == IF S = {} THEN 0 ELSE CHOOSE n \in S : \A m \in S : m <= n

\* the nesting depth of a JSON value: 0 for a scalar or null
RECURSIVE NestingDepth(_)
NestingDepth(v) ==
    CASE v.t = "arr" -> 1 + Max({NestingDepth(v.es[n]) : n \in 1..Len(v.es)})
      [] v.t = "obj" -> 1 + Max({NestingDepth(v.kvs[n].v) : n \in 1..Len(v.kvs)})
      [] OTHER       -> 0

\* the values nested strictly inside a JSON value
RECURSIVE SubValues(_)
SubValues(v) ==
    LET children == CASE v.t = "arr" -> {v.es[n] : n \in 1..Len(v.es)}
                      [] v.t = "obj" -> {v.kvs[n].v : n \in 1..Len(v.kvs)}
                      [] OTHER       -> {}
    IN children \cup UNION {SubValues(c) : c \in children}

Range(seq) == {seq[n] : n \in 1..Len(seq)}

\* the key of the associations object a job's result is assigned to
JobKey(job) == IF job.root THEN job.name ELSE toCamelCase(job.name)
\* the association edges of a job or of an entry of the associations object
EdgesOf(m) ==
    {[to |-> t, relation |-> "1:n"] : t \in Range(m.hasMany)}
    \cup {[to |-> t, relation |-> "1:1"] : t \in Range(m.hasOne)}
FieldsOfFile(name) == Range(OwnKeys(OwnGet(files, name).body))

FinalEdges ==
    UNION {{<<associations[n].key, e.to>> : e \in EdgesOf(associations[n].model)} :
            n \in 1..Len(associations)}
Entities ==
    Range(OwnKeys(associations)) \cup {e[2] : e \in FinalEdges}
Count(seq, x) == Cardinality({n \in 1..Len(seq) : seq[n] = x})
FirstPos(seq, x) == CHOOSE n \in 1..Len(seq) :
                        seq[n] = x /\ \A m \in 1..(n - 1) : seq[m] # x
DeclaredOnce ==
    \A e \in Entities : Count(importStatements, e) = 1 /\ Count(modelNames, e) = 1
Before(s, t) ==
    /\ FirstPos(importStatements, s) <= FirstPos(importStatements, t)
    /\ FirstPos(modelNames, s) <= FirstPos(modelNames, t)
JobsOf(k) == Cardinality({n \in 1..Len(jobLog) : JobKey(jobLog[n]) = k})

\* C7 (as claimed): declaration ordering.  In the import statements and the
\* model list every entity is declared exactly once, and for every edge
\* s -> t the source s is declared at or before the target t.
C7_DeclarationOrder ==
    pc = "done" =>
        /\ DeclaredOnce
        /\ \A e \in FinalEdges : Before(e[1], e[2])

\* C7 (amended): every entity is declared exactly once, and for every edge
\* s -> t whose target is the name of exactly one job and is not an integer-
\* like key, the source s is declared at or before the target t.
C7_DeclarationOrderOfSingleJobs ==
    pc = "done" =>
        /\ DeclaredOnce
        /\ \A e \in FinalEdges :
              (JobsOf(e[2]) = 1 /\ ~IsIndexKey(e[2])) => Before(e[1], e[2])

\* the end of a run in which one entity is the target of edges from two
\* sources and another is the target of an edge and the name of one job only
C7_Witness ==
    /\ pc = "done"
    /\ \E e1 \in FinalEdges : \E e2 \in FinalEdges :
          e1[2] = e2[2] /\ e1[1] # e2[1]
    /\ \E e \in FinalEdges : JobsOf(e[2]) = 1 /\ ~IsIndexKey(e[2])

====
